---- MODULE Spec2Model ----
(***************************************************************************)
(* A model of the oSSH honeypot: the corpus store, the auth policy and the *)
(* session orchestrator of server.go, and the OverlayFS manager and        *)
(* session of the overlay source file.                                     *)
(*                                                                         *)
(* Strings are sequences of characters, so that trimming, joining, prefix  *)
(* tests and number parsing are computed, not assumed.  The fixed names of *)
(* the disk layout (sandboxes, layers, merge-, ...) are written as one     *)
(* symbol each; every other character is a symbol of its own.              *)
(***************************************************************************)
EXTENDS Integers, Sequences, FiniteSets, TLC

VARIABLES
    Stats,        \* OSSHServer.Stats: the corpus multisets and login counters
    shells,       \* OSSHServer.shells: host -> connection whose shell is registered
    syncClients,  \* OSSHServer.syncClients: host -> BOOLEAN
    conns,        \* per connection task: position and the data of its session
    captures,     \* capture files on disk (their names)
    persisted,    \* the four corpus files on disk (their keys)
    nAttempts,    \* number of authHandler calls so far
    lastAuth,     \* record of the last authHandler call (history variable)
    lastCapture,  \* record of the last saveCapture call (history variable)
    auths,        \* per connection task: position in authHandler and its locals
    recorded,     \* host -> login records completed for it (history variable)
    lastCall,     \* record of the last other call on the server (history variable)
    now,          \* the last reading of the clock, unix seconds
    dirs,         \* the directories on disk (their paths)
    mounts,       \* the mount table: merged directory -> overlay mounted there
    content,      \* directory -> content of the marker file it holds
    sessions,     \* the OverlayFS objects NewSession returned, in order
    lastApi       \* record of the last session file API call (history variable)

\* the variables only the stepwise handlers and the recorded calls change
auxVars == <<auths, recorded, lastCall>>

serverVars == <<Stats, shells, syncClients, conns, captures, persisted, nAttempts,
                lastAuth, lastCapture, auxVars>>

fsVars == <<now, dirs, mounts, content, sessions, lastApi>>

vars == <<serverVars, fsVars>>

-----------------------------------------------------------------------------
(* Bounds                                                                  *)

MaxAttempts == 3
MaxConnects == 2
MaxSessions == 3
MaxApiSessions == 2
MaxCloseSessions == 2
MaxRaceAttempts == 2
MaxAdds == 3

-----------------------------------------------------------------------------
(* Strings                                                                 *)

IsSpace(c) == c \in {" ", "\t", "\n"}

RECURSIVE TrimLeft(_)
TrimLeft(s) == IF s # <<>> /\ IsSpace(Head(s)) THEN TrimLeft(Tail(s)) ELSE s

RECURSIVE TrimRight(_)
TrimRight(s) ==
    IF s # <<>> /\ IsSpace(s[Len(s)]) THEN TrimRight(SubSeq(s, 1, Len(s) - 1)) ELSE s

\* strings.TrimSpace
TrimSpace(s) == TrimRight(TrimLeft(s))

RECURSIVE Join(_, _)
\* strings.Join(elems, sep)
Join(elems, sep) ==
    IF elems = <<>> THEN <<>>
    ELSE IF Len(elems) = 1 THEN elems[1]
    ELSE elems[1] \o sep \o Join(Tail(elems), sep)

\* strings.HasPrefix
HasPrefix(s, prefix) ==
    Len(s) >= Len(prefix) /\ SubSeq(s, 1, Len(prefix)) = prefix

EmptyToken == <<"(", "e", "m", "p", "t", "y", ")">>

Digits == <<"0", "1", "2", "3", "4", "5", "6", "7", "8", "9">>

IsDigit(c) == \E i \in DOMAIN Digits : Digits[i] = c

DigitValue(c) == (CHOOSE i \in DOMAIN Digits : Digits[i] = c) - 1

RECURSIVE FormatInt(_)
\* strconv.FormatInt(n, 10), n >= 0
FormatInt(n) ==
    IF n < 10 THEN <<Digits[n + 1]>> ELSE FormatInt(n \div 10) \o <<Digits[(n % 10) + 1]>>

RECURSIVE DigitsValue(_)
DigitsValue(s) ==
    IF s = <<>> THEN 0
    ELSE 10 * DigitsValue(SubSeq(s, 1, Len(s) - 1)) + DigitValue(s[Len(s)])

\* num, _ := strconv.Atoi(s): the number, or 0 when s is not a number
Atoi(s) ==
    LET body == IF s # <<>> /\ s[1] \in {"+", "-"} THEN Tail(s) ELSE s IN
    IF body = <<>> \/ \E i \in DOMAIN body : ~IsDigit(body[i]) THEN 0
    ELSE IF s[1] = "-" THEN 0 - DigitsValue(body)
    ELSE DigitsValue(body)

\* the characters of the model's file names, in byte order
ByteOrder == <<"-", ".", "/", "0", "1", "2", "3", "4", "5", "6", "7", "8", "9",
               "b", "e", "p", "x">>

Byte(c) == CHOOSE i \in DOMAIN ByteOrder : ByteOrder[i] = c

RECURSIVE StringLess(_, _)
\* a < b for Go strings (bytewise)
StringLess(a, b) ==
    IF b = <<>> THEN FALSE
    ELSE IF a = <<>> THEN TRUE
    ELSE IF a[1] # b[1] THEN Byte(a[1]) < Byte(b[1])
    ELSE StringLess(Tail(a), Tail(b))

-----------------------------------------------------------------------------
(* Paths (package path/filepath, rooted paths)                             *)

RECURSIVE SplitFrom(_, _, _)
\* the components of s after position i, cur being the one in progress
SplitFrom(s, i, cur) ==
    IF i > Len(s) THEN <<cur>>
    ELSE IF s[i] = "/" THEN <<cur>> \o SplitFrom(s, i + 1, <<>>)
    ELSE SplitFrom(s, i + 1, Append(cur, s[i]))

\* strings.Split(s, "/")
SplitPath(s) == SplitFrom(s, 1, <<>>)

RECURSIVE CleanFrom(_, _, _)
\* Clean's pass over the components of a rooted path: empty and "."
\* components are dropped, ".." drops the component before it (none at
\* the root)
CleanFrom(comps, i, out) ==
    IF i > Len(comps) THEN out
    ELSE IF comps[i] = <<>> \/ comps[i] = <<".">> THEN CleanFrom(comps, i + 1, out)
    ELSE IF comps[i] = <<".", ".">>
         THEN CleanFrom(comps, i + 1,
                        IF out = <<>> THEN out ELSE SubSeq(out, 1, Len(out) - 1))
    ELSE CleanFrom(comps, i + 1, Append(out, comps[i]))

\* the components of filepath.Clean(p), p rooted
CleanComponents(p) == CleanFrom(SplitPath(p), 1, <<>>)

\* filepath.Clean(p), p rooted
Clean(p) == <<"/">> \o Join(CleanComponents(p), <<"/">>)

\* filepath.Join(a, b), a rooted
PathJoin(a, b) == IF b = <<>> THEN Clean(a) ELSE Clean(a \o <<"/">> \o b)

\* filepath.Abs(p), p rooted
Abs(p) == Clean(p)

-----------------------------------------------------------------------------
(* Go maps                                                                 *)

NoEntries == [k \in {} |-> 0]

\* m[k], the zero value when k is absent
Get(m, k) == IF k \in DOMAIN m THEN m[k] ELSE 0

\* m[k] = v
Put(m, k, v) == [x \in (DOMAIN m) \cup {k} |-> IF x = k THEN v ELSE m[x]]

\* delete(m, k)
Delete(m, k) == [x \in (DOMAIN m) \ {k} |-> m[x]]

-----------------------------------------------------------------------------
(* Corpus store                                                            *)

hasFingerprint(S, sha1) == sha1 \in DOMAIN S.Fingerprints
hasUser(S, usr) == usr \in DOMAIN S.Users
hasPassword(S, pwd) == pwd \in DOMAIN S.Passwords
hasHost(S, host) == host \in DOMAIN S.Hosts

addFingerprint(S, raw) ==
    LET sha1 == TrimSpace(raw) IN
    IF sha1 = <<>> THEN S
    ELSE [S EXCEPT !.Fingerprints =
            Put(S.Fingerprints, sha1,
                (IF hasFingerprint(S, sha1) THEN S.Fingerprints[sha1] ELSE 0) + 1)]

addUser(S, raw) ==
    LET usr == TrimSpace(raw) IN
    IF usr = <<>> THEN S
    ELSE [S EXCEPT !.Users =
            Put(S.Users, usr, (IF hasUser(S, usr) THEN S.Users[usr] ELSE 0) + 1)]

addPassword(S, raw) ==
    LET pwd == TrimSpace(raw) IN
    IF pwd = <<>> THEN S
    ELSE [S EXCEPT !.Passwords =
            Put(S.Passwords, pwd,
                (IF hasPassword(S, pwd) THEN S.Passwords[pwd] ELSE 0) + 1)]

\* addHost with the test for an empty string left out
addHostKeepBlank(S, raw) ==
    LET host == TrimSpace(raw) IN
    IF ~hasHost(S, host)
    THEN [S EXCEPT !.Hosts = Put(S.Hosts, host, 1),
                   !.Attempts = Put(S.Attempts, host, 0),
                   !.Failed = Put(S.Failed, host, 0),
                   !.OK = Put(S.OK, host, 0)]
    ELSE [S EXCEPT !.Hosts = Put(S.Hosts, host, S.Hosts[host] + 1)]

addHost(S, raw) ==
    LET host == TrimSpace(raw) IN
    IF host = <<>> THEN S
    ELSE IF ~hasHost(S, host)
         THEN [S EXCEPT !.Hosts = Put(S.Hosts, host, 1),
                        !.Attempts = Put(S.Attempts, host, 0),
                        !.Failed = Put(S.Failed, host, 0),
                        !.OK = Put(S.OK, host, 0)]
         ELSE [S EXCEPT !.Hosts = Put(S.Hosts, host, S.Hosts[host] + 1)]

incCounter(stat, host) == Put(stat, host, Get(stat, host) + 1)

\* addLoginFailure that forgets the Failed counter
addLoginFailureNoFailed(S, usr, rawPwd, host) ==
    LET pwd == IF rawPwd = <<>> THEN EmptyToken ELSE rawPwd
        S1 == addHost(addPassword(addUser(S, usr), pwd), host)
    IN  [S1 EXCEPT !.Attempts = incCounter(S1.Attempts, host)]

\* addLoginFailure that does not record the host
addLoginFailureNoHost(S, usr, rawPwd, host) ==
    LET pwd == IF rawPwd = <<>> THEN EmptyToken ELSE rawPwd
        S1 == addPassword(addUser(S, usr), pwd)
    IN  [S1 EXCEPT !.Attempts = incCounter(S1.Attempts, host),
                   !.Failed = incCounter(S1.Failed, host)]

addLoginFailure(S, usr, rawPwd, host) ==
    LET pwd == IF rawPwd = <<>> THEN EmptyToken ELSE rawPwd
        S1 == addHost(addPassword(addUser(S, usr), pwd), host)
    IN  [S1 EXCEPT !.Attempts = incCounter(S1.Attempts, host),
                   !.Failed = incCounter(S1.Failed, host)]

addLoginSuccess(S, usr, rawPwd, host) ==
    LET pwd == IF rawPwd = <<>> THEN EmptyToken ELSE rawPwd
        S1 == addHost(addPassword(addUser(S, usr), pwd), host)
    IN  [S1 EXCEPT !.Attempts = incCounter(S1.Attempts, host),
                   !.OK = incCounter(S1.OK, host)]

-----------------------------------------------------------------------------
(* Configuration and inputs                                                *)

HostA == <<"1">>
HostB == <<"2">>
UserRoot == <<"r">>
UserPadded == <<" ", "r">>
UserSync == <<"s">>
PwdPlain == <<"p">>
PwdSync == <<"k">>

\* Conf.Sync.Nodes
Nodes == << [Host |-> HostB, User |-> UserSync, Password |-> PwdSync] >>

Conns == {"c1", "c2"}
RemoteHosts == {HostA, HostB}
UserInputs == {UserRoot, UserPadded, UserSync}
PasswordInputs == {PwdPlain, <<>>, PwdSync}
UnixNow == {9, 10}
TimeSpentInputs == {1}
\* the credentials tried by the connections that go on to sessions
SessionCredentials == { [user |-> UserRoot, password |-> PwdPlain],
                        [user |-> UserSync, password |-> PwdSync] }
CmdLs == <<"l", "s">>
CmdId == <<"i", "d">>
Histories == { <<CmdLs>>, <<CmdLs, CmdId>> }

\* StringToSha1: an injective, non-blank digest of the text
StringToSha1(text) ==
    <<"#">> \o [i \in 1 .. Len(text) |-> IF text[i] = "\n" THEN "_" ELSE text[i]]

\* fmt.Sprintf("%s/ocap-%s-%s.sh", Conf.PathCaptures, host, sha1)
CapturePath(host, sha1) ==
    <<"o", "c", "a", "p", "-">> \o host \o <<"-">> \o sha1 \o <<".", "s", "h">>

\* FileExists(f), for a capture file
FileExists(files, f) == f \in files

-----------------------------------------------------------------------------
(* Auth policy                                                             *)

IsPeerTriple(usr, pwd, host) ==
    \E i \in DOMAIN Nodes :
        usr = Nodes[i].User /\ pwd = Nodes[i].Password /\ Nodes[i].Host = host

RECURSIVE SyncLoop(_, _, _, _, _)
\* the loop over Conf.Sync.Nodes, from node i on: the map it leaves and
\* whether it returned true
SyncLoop(sc, i, usr, pwd, host) ==
    IF i > Len(Nodes) THEN [sc |-> sc, hit |-> FALSE]
    ELSE IF usr = Nodes[i].User /\ pwd = Nodes[i].Password /\ Nodes[i].Host = host
         THEN [sc |-> Put(sc, host, TRUE), hit |-> TRUE]
         ELSE SyncLoop(Put(sc, host, FALSE), i + 1, usr, pwd, host)

\* the ladder with the credentials rule tried before the host rule
AuthLadderCredentialsFirst(S, usr, pwd, host, unixNow) ==
    IF hasUser(S, usr) /\ hasPassword(S, pwd)
    THEN [accept |-> FALSE, reason |-> "host does not have new credentials",
          S |-> addLoginFailure(S, usr, pwd, host)]
    ELSE IF hasHost(S, host)
    THEN [accept |-> TRUE, reason |-> "host is back for more",
          S |-> addLoginSuccess(S, usr, pwd, host)]
    ELSE IF hasUser(S, usr)
    THEN [accept |-> TRUE, reason |-> "host got the user name right",
          S |-> addLoginSuccess(S, usr, pwd, host)]
    ELSE IF hasPassword(S, pwd)
    THEN [accept |-> TRUE, reason |-> "host got the password right",
          S |-> addLoginSuccess(S, usr, pwd, host)]
    ELSE IF unixNow % 3 # 0
    THEN [accept |-> FALSE, reason |-> "host lost a game of dice",
          S |-> addLoginFailure(S, usr, pwd, host)]
    ELSE [accept |-> TRUE, reason |-> "host dodged all obstacles",
          S |-> addLoginSuccess(S, usr, pwd, host)]

\* the decision ladder after the sync loop: outcome, reason and the corpus
\* it leaves
AuthLadder(S, usr, pwd, host, unixNow) ==
    IF hasHost(S, host)
    THEN [accept |-> TRUE, reason |-> "host is back for more",
          S |-> addLoginSuccess(S, usr, pwd, host)]
    ELSE IF hasUser(S, usr) /\ hasPassword(S, pwd)
    THEN [accept |-> FALSE, reason |-> "host does not have new credentials",
          S |-> addLoginFailure(S, usr, pwd, host)]
    ELSE IF hasUser(S, usr)
    THEN [accept |-> TRUE, reason |-> "host got the user name right",
          S |-> addLoginSuccess(S, usr, pwd, host)]
    ELSE IF hasPassword(S, pwd)
    THEN [accept |-> TRUE, reason |-> "host got the password right",
          S |-> addLoginSuccess(S, usr, pwd, host)]
    ELSE IF unixNow % 3 # 0
    THEN [accept |-> FALSE, reason |-> "host lost a game of dice",
          S |-> addLoginFailure(S, usr, pwd, host)]
    ELSE [accept |-> TRUE, reason |-> "host dodged all obstacles",
          S |-> addLoginSuccess(S, usr, pwd, host)]

IdleConn == [pc |-> "idle", host |-> <<>>, user |-> <<>>, peer |-> FALSE,
             hist |-> <<>>, wasted |-> 0]

\* authHandler(ctx, pwd) at unix time unixNow: its effect on the server
authHandler(usr, pwd, host, unixNow) ==
    LET loop == SyncLoop(syncClients, 1, usr, pwd, host)
        res == AuthLadder(Stats, usr, pwd, host, unixNow)
    IN  /\ nAttempts' = nAttempts + 1
        /\ syncClients' = loop.sc
        /\ Stats' = IF loop.hit THEN Stats ELSE res.S

\* the value authHandler returns, its reason, and whether the sync loop hit
authResult(usr, pwd, host, unixNow) ==
    LET loop == SyncLoop(syncClients, 1, usr, pwd, host)
        res == AuthLadder(Stats, usr, pwd, host, unixNow)
    IN  [peer |-> loop.hit, accept |-> loop.hit \/ res.accept,
         reason |-> IF loop.hit THEN "sync client" ELSE res.reason]

\* a login attempt, looked at alone: authHandler and the record of the call
Attempt(usr, pwd, host, unixNow) ==
    LET r == authResult(usr, pwd, host, unixNow) IN
    /\ nAttempts < MaxAttempts
    /\ authHandler(usr, pwd, host, unixNow)
    /\ lastAuth' = [called |-> TRUE, usr |-> usr, pwd |-> pwd, host |-> host,
                    now |-> unixNow, peer |-> r.peer, accept |-> r.accept,
                    reason |-> r.reason, pre |-> Stats]
    /\ UNCHANGED <<shells, conns, captures, persisted, lastCapture, auxVars>>

\* a connection c whose password attempt the front-end hands to authHandler;
\* an accepted one goes on to a session
Connect(c, usr, pwd, host, unixNow) ==
    LET r == authResult(usr, pwd, host, unixNow) IN
    /\ conns[c].pc = "idle"
    /\ nAttempts < MaxConnects
    /\ authHandler(usr, pwd, host, unixNow)
    /\ conns' = [conns EXCEPT ![c] =
            IF r.accept
            THEN [IdleConn EXCEPT !.pc = "authed", !.host = host,
                                  !.user = usr, !.peer = r.peer]
            ELSE IdleConn]
    /\ UNCHANGED <<shells, captures, persisted, lastAuth, lastCapture, auxVars>>

-----------------------------------------------------------------------------
(* Session orchestrator                                                    *)

IsSyncClient(host) == host \in DOMAIN syncClients /\ syncClients[host]

\* sessionHandler: fs := NewFakeShell(s); ossh.shells[host] = fs
sessionRegister(c) ==
    /\ conns[c].pc = "authed"
    /\ shells' = Put(shells, conns[c].host, c)
    /\ conns' = [conns EXCEPT ![c].pc = "running"]
    /\ UNCHANGED <<Stats, syncClients, captures, persisted, nAttempts, lastAuth,
                   lastCapture, auxVars>>

\* sessionHandler: stats := fs.Process(), then the TimeWasted accounting
sessionProcess(c, hist, spent) ==
    /\ conns[c].pc = "running"
    /\ Stats' = IF ~IsSyncClient(conns[c].host)
                THEN [Stats EXCEPT !.TimeWasted = @ + spent]
                ELSE Stats
    /\ conns' = [conns EXCEPT ![c].pc = "processed", ![c].hist = hist,
                              ![c].wasted =
                                  IF ~IsSyncClient(conns[c].host) THEN spent ELSE 0]
    /\ UNCHANGED <<shells, syncClients, captures, persisted, nAttempts, lastAuth,
                   lastCapture, auxVars>>

\* sessionHandler: saveUsers, savePasswords, saveHosts, saveFingerprints
sessionPersist(c) ==
    /\ conns[c].pc = "processed"
    /\ persisted' = [users |-> DOMAIN Stats.Users,
                     passwords |-> DOMAIN Stats.Passwords,
                     hosts |-> DOMAIN Stats.Hosts,
                     fingerprints |-> DOMAIN Stats.Fingerprints]
    /\ conns' = [conns EXCEPT ![c].pc = "persisted"]
    /\ UNCHANGED <<Stats, shells, syncClients, captures, nAttempts, lastAuth,
                   lastCapture, auxVars>>

\* saveCapture that registers the fingerprint before looking for the file
saveCaptureRegisterFirst(c, writeOK) ==
    LET host == conns[c].host
        Commands == Join(conns[c].hist, <<"\n">>)
        resSha1 == StringToSha1(Commands)
        f == CapturePath(host, resSha1)
        key == <<host, conns[c].hist>>
        exists == FileExists(captures, f)
        S1 == addFingerprint(Stats, resSha1)
    IN  /\ Stats' = S1
        /\ captures' = IF ~exists /\ writeOK THEN captures \cup {f} ELSE captures
        /\ lastCapture' =
              [called |-> TRUE, host |-> host, sha1 |-> resSha1, peer |-> conns[c].peer,
               repeat |-> key \in lastCapture.seen,
               prevSaved |-> key \in lastCapture.saved,
               wrote |-> ~exists,
               fpBefore |-> Get(Stats.Fingerprints, resSha1),
               fpAfter |-> Get(S1.Fingerprints, resSha1),
               seen |-> lastCapture.seen \cup {key},
               saved |-> IF ~exists /\ writeOK THEN lastCapture.saved \cup {key}
                         ELSE lastCapture.saved]

\* saveCapture(stats); writeOK is the outcome of os.WriteFile
saveCapture(c, writeOK) ==
    LET host == conns[c].host
        Commands == Join(conns[c].hist, <<"\n">>)
        resSha1 == StringToSha1(Commands)
        f == CapturePath(host, resSha1)
        key == <<host, conns[c].hist>>
        exists == FileExists(captures, f)
        S1 == IF exists THEN Stats ELSE addFingerprint(Stats, resSha1)
    IN  /\ Stats' = S1
        /\ captures' = IF ~exists /\ writeOK THEN captures \cup {f} ELSE captures
        /\ lastCapture' =
              [called |-> TRUE, host |-> host, sha1 |-> resSha1, peer |-> conns[c].peer,
               repeat |-> key \in lastCapture.seen,
               prevSaved |-> key \in lastCapture.saved,
               wrote |-> ~exists,
               fpBefore |-> Get(Stats.Fingerprints, resSha1),
               fpAfter |-> Get(S1.Fingerprints, resSha1),
               seen |-> lastCapture.seen \cup {key},
               saved |-> IF ~exists /\ writeOK THEN lastCapture.saved \cup {key}
                         ELSE lastCapture.saved]

\* sessionHandler: if !ossh.syncClients[host] { ossh.saveCapture(stats) }
sessionCapture(c, writeOK) ==
    /\ conns[c].pc = "persisted"
    /\ IF ~IsSyncClient(conns[c].host)
       THEN saveCapture(c, writeOK)
       ELSE /\ writeOK
            /\ UNCHANGED <<Stats, captures, lastCapture>>
    /\ conns' = [conns EXCEPT ![c].pc = "captured"]
    /\ UNCHANGED <<shells, syncClients, persisted, nAttempts, lastAuth, auxVars>>

\* sessionHandler: delete(ossh.shells, host)
sessionUnregister(c) ==
    /\ conns[c].pc = "captured"
    /\ shells' = Delete(shells, conns[c].host)
    /\ conns' = [conns EXCEPT ![c] = IdleConn]
    /\ UNCHANGED <<Stats, syncClients, captures, persisted, nAttempts, lastAuth,
                   lastCapture, auxVars>>

-----------------------------------------------------------------------------
(* Construction                                                            *)

EmptyStats == [Hosts |-> NoEntries, Users |-> NoEntries, Passwords |-> NoEntries,
               Fingerprints |-> NoEntries, Attempts |-> NoEntries,
               Failed |-> NoEntries, OK |-> NoEntries, TimeWasted |-> 0]

RECURSIVE loadHosts(_, _)
\* the loop of loadHosts over the lines of the hosts file
loadHosts(S, lines) ==
    IF lines = <<>> THEN S ELSE loadHosts(addHost(S, Head(lines)), Tail(lines))

RECURSIVE loadUsers(_, _)
loadUsers(S, lines) ==
    IF lines = <<>> THEN S ELSE loadUsers(addUser(S, Head(lines)), Tail(lines))

RECURSIVE loadPasswords(_, _)
loadPasswords(S, lines) ==
    IF lines = <<>> THEN S
    ELSE loadPasswords(addPassword(S, Head(lines)), Tail(lines))

RECURSIVE loadFingerprints(_, _)
loadFingerprints(S, lines) ==
    IF lines = <<>> THEN S
    ELSE loadFingerprints(addFingerprint(S, Head(lines)), Tail(lines))

\* the lines strings.Split(content, "\n") yields for a file saved with keys
FileLines(keys) == keys \o << <<>> >>

\* NewOSSHServer + init, given the keys in the four corpus files
NewOSSHServer(hosts, users, passwords, fingerprints) ==
    loadFingerprints(
        loadPasswords(
            loadUsers(
                loadHosts(EmptyStats, FileLines(hosts)),
                FileLines(users)),
            FileLines(passwords)),
        FileLines(fingerprints))

NoAuth == [called |-> FALSE, usr |-> <<>>, pwd |-> <<>>, host |-> <<>>, now |-> 0,
           peer |-> FALSE, accept |-> FALSE, reason |-> "", pre |-> EmptyStats]

NoCapture == [called |-> FALSE, host |-> <<>>, sha1 |-> <<>>, peer |-> FALSE,
              repeat |-> FALSE, prevSaved |-> FALSE, wrote |-> FALSE,
              fpBefore |-> 0, fpAfter |-> 0, seen |-> {}, saved |-> {}]

\* a connection task that is not inside authHandler
IdleAuth == [pc |-> "idle", usr |-> <<>>, pwd |-> <<>>, host |-> <<>>,
             accept |-> FALSE, h |-> 0, newUser |-> FALSE, newPwd |-> FALSE]

NoCall == [called |-> FALSE, op |-> "", arg |-> <<>>, pre |-> EmptyStats,
           out |-> [kind |-> "", user |-> <<>>]]

NoCorpusFiles ==
    [hosts |-> <<>>, users |-> <<>>, passwords |-> <<>>, fingerprints |-> <<>>]

\* the corpus files the server may find at startup
CorpusFiles ==
    { NoCorpusFiles,
      [hosts |-> <<>>, users |-> <<UserRoot>>, passwords |-> <<PwdPlain>>,
       fingerprints |-> <<>>] }

\* the server NewOSSHServer returns when the corpus files hold `files`
InitServer(files) ==
    /\ Stats = NewOSSHServer(files.hosts, files.users, files.passwords,
                             files.fingerprints)
    /\ persisted = [users |-> {files.users[i] : i \in DOMAIN files.users},
                    passwords |->
                        {files.passwords[i] : i \in DOMAIN files.passwords},
                    hosts |-> {files.hosts[i] : i \in DOMAIN files.hosts},
                    fingerprints |->
                        {files.fingerprints[i] : i \in DOMAIN files.fingerprints}]
    /\ shells = NoEntries
    /\ syncClients = NoEntries
    /\ conns = [c \in Conns |-> IdleConn]
    /\ captures = {}
    /\ nAttempts = 0
    /\ lastAuth = NoAuth
    /\ lastCapture = NoCapture
    /\ auths = [c \in Conns |-> IdleAuth]
    /\ recorded = NoEntries
    /\ lastCall = NoCall

-----------------------------------------------------------------------------
(* Session orchestrator, statement by statement                            *)

\* sessionHandler up to saveCapture's addFingerprint: the peer test, the
\* FileExists test and the registration of the fingerprint
sessionCaptureBegin(c) ==
    LET host == conns[c].host
        Commands == Join(conns[c].hist, <<"\n">>)
        resSha1 == StringToSha1(Commands)
        f == CapturePath(host, resSha1)
        key == <<host, conns[c].hist>>
        exists == FileExists(captures, f)
        S1 == IF exists THEN Stats ELSE addFingerprint(Stats, resSha1)
    IN  /\ conns[c].pc = "persisted"
        /\ IF IsSyncClient(host)
           THEN /\ conns' = [conns EXCEPT ![c].pc = "captured"]
                /\ UNCHANGED <<Stats, lastCapture>>
           ELSE /\ Stats' = S1
                /\ lastCapture' =
                      [called |-> TRUE, host |-> host, sha1 |-> resSha1,
                       peer |-> conns[c].peer,
                       repeat |-> key \in lastCapture.seen,
                       prevSaved |-> key \in lastCapture.saved,
                       wrote |-> ~exists,
                       fpBefore |-> Get(Stats.Fingerprints, resSha1),
                       fpAfter |-> Get(S1.Fingerprints, resSha1),
                       seen |-> lastCapture.seen \cup {key},
                       saved |-> lastCapture.saved]
                /\ conns' = [conns EXCEPT ![c].pc =
                                 IF exists THEN "captured" ELSE "writing"]
        /\ UNCHANGED <<shells, syncClients, captures, persisted, nAttempts,
                       lastAuth, auxVars>>

\* saveCapture's os.WriteFile(f, ...), writeOK its outcome
sessionCaptureWrite(c, writeOK) ==
    LET host == conns[c].host
        f == CapturePath(host, StringToSha1(Join(conns[c].hist, <<"\n">>)))
        key == <<host, conns[c].hist>>
    IN  /\ conns[c].pc = "writing"
        /\ captures' = IF writeOK THEN captures \cup {f} ELSE captures
        /\ lastCapture' = [lastCapture EXCEPT !.saved =
                              IF writeOK THEN @ \cup {key} ELSE @]
        /\ lastCall' = [called |-> TRUE, op |-> "os.WriteFile", arg |-> f,
                        pre |-> Stats,
                        out |-> [kind |-> IF ~writeOK THEN "error"
                                          ELSE IF FileExists(captures, f)
                                          THEN "overwritten" ELSE "created",
                                 user |-> conns[c].user]]
        /\ conns' = [conns EXCEPT ![c].pc = "captured"]
        /\ UNCHANGED <<Stats, shells, syncClients, persisted, nAttempts, lastAuth,
                       auths, recorded>>

ErrEOF == "EOF"
ErrTimeout == "i/o timeout"
ErrInputs == {ErrEOF, ErrTimeout}

\* connectionFailedCallback(conn, err): what it logs
connectionFailedCallback(host, err) ==
    /\ lastCall' =
          [called |-> TRUE, op |-> "connectionFailedCallback",
           arg |-> [host |-> host, err |-> err, shell |-> host \in DOMAIN shells],
           pre |-> Stats,
           out |-> IF err = ErrEOF THEN [kind |-> "ignored", user |-> <<>>]
                   ELSE IF hasHost(Stats, host) /\ host \in DOMAIN shells
                   THEN [kind |-> "user@host", user |-> conns[shells[host]].user]
                   ELSE [kind |-> "host", user |-> <<>>]]
    /\ UNCHANGED <<Stats, shells, syncClients, conns, captures, persisted,
                   nAttempts, lastAuth, lastCapture, auths, recorded>>

-----------------------------------------------------------------------------
(* Auth policy, statement by statement                                     *)

\* authHandler up to the call of addLoginSuccess / addLoginFailure: the
\* sync loop and the tests of the ladder
authBegin(c, usr, pwd, host, unixNow) ==
    LET loop == SyncLoop(syncClients, 1, usr, pwd, host)
        res == AuthLadder(Stats, usr, pwd, host, unixNow)
    IN  /\ auths[c].pc = "idle"
        /\ nAttempts < MaxRaceAttempts
        /\ nAttempts' = nAttempts + 1
        /\ syncClients' = loop.sc
        /\ auths' = [auths EXCEPT ![c] =
              IF loop.hit THEN IdleAuth
              ELSE [IdleAuth EXCEPT !.pc = "addUser", !.usr = usr,
                                    !.pwd = IF pwd = <<>> THEN EmptyToken ELSE pwd,
                                    !.host = host, !.accept = res.accept]]
        /\ UNCHANGED <<Stats, shells, conns, captures, persisted, lastAuth,
                       lastCapture, recorded, lastCall>>

\* addLoginSuccess / addLoginFailure: ossh.addUser(usr)
authAddUser(c) ==
    /\ auths[c].pc = "addUser"
    /\ Stats' = addUser(Stats, auths[c].usr)
    /\ auths' = [auths EXCEPT ![c].pc = "addPassword",
                              ![c].newUser = ~hasUser(Stats, TrimSpace(auths[c].usr))]
    /\ UNCHANGED <<shells, syncClients, conns, captures, persisted, nAttempts,
                   lastAuth, lastCapture, recorded, lastCall>>

\* addLoginSuccess / addLoginFailure: ossh.addPassword(pwd)
authAddPassword(c) ==
    /\ auths[c].pc = "addPassword"
    /\ Stats' = addPassword(Stats, auths[c].pwd)
    /\ auths' = [auths EXCEPT ![c].pc = "addHost",
                              ![c].newPwd =
                                  ~hasPassword(Stats, TrimSpace(auths[c].pwd))]
    /\ UNCHANGED <<shells, syncClients, conns, captures, persisted, nAttempts,
                   lastAuth, lastCapture, recorded, lastCall>>

\* addLoginSuccess / addLoginFailure: ossh.addHost(host)
authAddHost(c) ==
    /\ auths[c].pc = "addHost"
    /\ Stats' = addHost(Stats, auths[c].host)
    /\ auths' = [auths EXCEPT ![c].pc = "readAttempts"]
    /\ UNCHANGED <<shells, syncClients, conns, captures, persisted, nAttempts,
                   lastAuth, lastCapture, recorded, lastCall>>

\* incCounter(Attempts, host): h := stat[host]
authReadAttempts(c) ==
    /\ auths[c].pc = "readAttempts"
    /\ auths' = [auths EXCEPT ![c].pc = "writeAttempts",
                              ![c].h = Get(Stats.Attempts, auths[c].host)]
    /\ UNCHANGED <<Stats, shells, syncClients, conns, captures, persisted,
                   nAttempts, lastAuth, lastCapture, recorded, lastCall>>

\* incCounter(Attempts, host): stat[host] = h + 1
authWriteAttempts(c) ==
    /\ auths[c].pc = "writeAttempts"
    /\ Stats' = [Stats EXCEPT !.Attempts = Put(@, auths[c].host, auths[c].h + 1)]
    /\ auths' = [auths EXCEPT ![c].pc = "readOutcome"]
    /\ UNCHANGED <<shells, syncClients, conns, captures, persisted, nAttempts,
                   lastAuth, lastCapture, recorded, lastCall>>

\* incCounter(OK or Failed, host): h := stat[host]
authReadOutcome(c) ==
    /\ auths[c].pc = "readOutcome"
    /\ auths' = [auths EXCEPT ![c].pc = "writeOutcome",
                              ![c].h = IF auths[c].accept
                                       THEN Get(Stats.OK, auths[c].host)
                                       ELSE Get(Stats.Failed, auths[c].host)]
    /\ UNCHANGED <<Stats, shells, syncClients, conns, captures, persisted,
                   nAttempts, lastAuth, lastCapture, recorded, lastCall>>

\* incCounter(OK or Failed, host): stat[host] = h + 1; the record is complete
authWriteOutcome(c) ==
    /\ auths[c].pc = "writeOutcome"
    /\ Stats' = IF auths[c].accept
                THEN [Stats EXCEPT !.OK = Put(@, auths[c].host, auths[c].h + 1)]
                ELSE [Stats EXCEPT !.Failed = Put(@, auths[c].host, auths[c].h + 1)]
    /\ recorded' = incCounter(recorded, auths[c].host)
    /\ auths' = [auths EXCEPT ![c] = IdleAuth]
    /\ UNCHANGED <<shells, syncClients, conns, captures, persisted, nAttempts,
                   lastAuth, lastCapture, lastCall>>

\* task c has inserted a key of its login record and has yet to insert
\* another that is still missing
PartlyApplied(c) ==
    \/ /\ auths[c].pc = "addPassword"
       /\ auths[c].newUser
       /\ \/ ~hasPassword(Stats, auths[c].pwd)
          \/ ~hasHost(Stats, auths[c].host)
    \/ /\ auths[c].pc = "addHost"
       /\ auths[c].newUser \/ auths[c].newPwd
       /\ ~hasHost(Stats, auths[c].host)

\* statsJSON(): the keys of the four multisets, as read at this moment
statsJSON ==
    /\ lastCall' = [called |-> TRUE, op |-> "statsJSON",
                    arg |-> [Hosts |-> DOMAIN Stats.Hosts,
                             Users |-> DOMAIN Stats.Users,
                             Passwords |-> DOMAIN Stats.Passwords,
                             Fingerprints |-> DOMAIN Stats.Fingerprints,
                             partial |-> \E c \in Conns : PartlyApplied(c)],
                    pre |-> Stats,
                    out |-> [kind |-> "json", user |-> <<>>]]
    /\ UNCHANGED <<Stats, shells, syncClients, conns, captures, persisted,
                   nAttempts, lastAuth, lastCapture, auths, recorded>>

-----------------------------------------------------------------------------
(* The corpus store, called directly                                       *)

AddOps == {"addHost", "addUser", "addPassword", "addFingerprint"}

\* the strings handed to the add functions
AddInputs == { <<>>, <<" ">>, <<"\t", " ">>, UserRoot, UserPadded,
               <<"r", "\n">>, PwdPlain }

RECURSIVE SumOf(_)
\* the sum of the counts of a multiset
SumOf(m) ==
    IF DOMAIN m = {} THEN 0
    ELSE LET k == CHOOSE x \in DOMAIN m : TRUE IN m[k] + SumOf(Delete(m, k))

\* the number of items the four multisets hold
Observations(S) ==
    SumOf(S.Hosts) + SumOf(S.Users) + SumOf(S.Passwords) + SumOf(S.Fingerprints)

\* a call of one of the four add functions with the string raw
AddCall(op, raw) ==
    /\ Observations(Stats) < MaxAdds
    /\ Stats' = CASE op = "addHost" -> addHost(Stats, raw)
                  [] op = "addUser" -> addUser(Stats, raw)
                  [] op = "addPassword" -> addPassword(Stats, raw)
                  [] op = "addFingerprint" -> addFingerprint(Stats, raw)
    /\ lastCall' = [called |-> TRUE, op |-> op, arg |-> raw, pre |-> Stats,
                    out |-> [kind |-> "", user |-> <<>>]]
    /\ UNCHANGED <<shells, syncClients, conns, captures, persisted, nAttempts,
                   lastAuth, lastCapture, auths, recorded>>

-----------------------------------------------------------------------------
(* Persisting and restarting                                               *)

RECURSIVE KeysInSomeOrder(_)
\* maps.Keys(m): the keys in an order of the runtime's choosing
KeysInSomeOrder(keys) ==
    IF keys = {} THEN <<>>
    ELSE LET k == CHOOSE x \in keys : TRUE
         IN  <<k>> \o KeysInSomeOrder(keys \ {k})

\* the text save* writes: strings.Join(maps.Keys(m), "\n") + "\n"
FileText(keys) == Join(KeysInSomeOrder(keys), <<"\n">>) \o <<"\n">>

RECURSIVE SplitLinesFrom(_, _)
\* strings.Split(text, "\n"), cur being the line read so far
SplitLinesFrom(text, cur) ==
    IF text = <<>> THEN <<cur>>
    ELSE IF Head(text) = "\n" THEN <<cur>> \o SplitLinesFrom(Tail(text), <<>>)
    ELSE SplitLinesFrom(Tail(text), Append(cur, Head(text)))

SplitLines(text) == SplitLinesFrom(text, <<>>)

\* a user name of two lines
UserTwoLines == <<"r", "\n", "s">>
RestartUserInputs == {UserRoot, UserTwoLines}

\* saveUsers, savePasswords, saveHosts, saveFingerprints
SaveCorpus ==
    /\ persisted' = [users |-> DOMAIN Stats.Users,
                     passwords |-> DOMAIN Stats.Passwords,
                     hosts |-> DOMAIN Stats.Hosts,
                     fingerprints |-> DOMAIN Stats.Fingerprints]
    /\ UNCHANGED <<Stats, shells, syncClients, conns, captures, nAttempts,
                   lastAuth, lastCapture, auxVars>>

\* init(): the four load functions on the text of the four files
LoadCorpus(files) ==
    loadFingerprints(
        loadPasswords(
            loadUsers(
                loadHosts(EmptyStats, SplitLines(FileText(files.hosts))),
                SplitLines(FileText(files.users))),
            SplitLines(FileText(files.passwords))),
        SplitLines(FileText(files.fingerprints)))

\* the process ends and NewOSSHServer runs again on the files on disk
Restart ==
    /\ Stats' = LoadCorpus(persisted)
    /\ shells' = NoEntries
    /\ syncClients' = NoEntries
    /\ conns' = [c \in Conns |-> IdleConn]
    /\ auths' = [c \in Conns |-> IdleAuth]
    /\ lastCall' = [called |-> TRUE, op |-> "NewOSSHServer",
                    arg |-> [files |-> persisted, loaded |-> LoadCorpus(persisted)],
                    pre |-> Stats,
                    out |-> [kind |-> "", user |-> <<>>]]
    /\ UNCHANGED <<captures, persisted, nAttempts, lastAuth, lastCapture, recorded>>

-----------------------------------------------------------------------------
(* OverlayFS manager                                                       *)

BaseDir == <<"/", "b">>
NameDefaultFs == <<"defaultfs">>
NameSandboxes == <<"sandboxes">>
NameLayers == <<"layers">>
NameWork == <<"work">>
PrefixMerge == <<"merge-">>
PrefixWork == <<"work-">>

\* the clock reading the model starts from
StartTime == 8
\* seconds the clock may have advanced by when NewSession reads it
ClockSteps == {0, 1}
SandboxKeys == {HostA, HostB}

DefaultFsPath == PathJoin(BaseDir, NameDefaultFs)
SandboxesPath == PathJoin(BaseDir, NameSandboxes)

\* DirExists(path)
DirExists(disk, path) == path \in disk

\* the directory a path lies in, and its last component
ParentDir(p) ==
    LET c == CleanComponents(p) IN
    <<"/">> \o Join(SubSeq(c, 1, Len(c) - 1), <<"/">>)

BaseName(p) == LET c == CleanComponents(p) IN c[Len(c)]

RECURSIVE SortedByName(_)
\* a set of names as the sequence sorted by StringLess
SortedByName(names) ==
    IF names = {} THEN <<>>
    ELSE LET first == CHOOSE x \in names :
                          \A y \in names : x = y \/ StringLess(x, y)
         IN  <<first>> \o SortedByName(names \ {first})

\* os.ReadDir(path): the names of the directories in it, sorted by filename
ReadDirNames(disk, path) ==
    SortedByName({ BaseName(d) : d \in { e \in disk : e # <<"/">> /\ ParentDir(e) = path } })

RECURSIVE InsertByAtoi(_, _)
\* the inner loop of the insertion sort sort.Slice runs on a short slice,
\* with less(i, j) == Atoi(lowerLayers[i]) < Atoi(lowerLayers[j])
InsertByAtoi(sorted, x) ==
    IF sorted # <<>> /\ Atoi(x) < Atoi(sorted[Len(sorted)])
    THEN Append(InsertByAtoi(SubSeq(sorted, 1, Len(sorted) - 1), x),
                sorted[Len(sorted)])
    ELSE Append(sorted, x)

RECURSIVE SortByAtoi(_)
SortByAtoi(slice) ==
    IF slice = <<>> THEN <<>>
    ELSE InsertByAtoi(SortByAtoi(SubSeq(slice, 1, Len(slice) - 1)), slice[Len(slice)])

\* the lowerLayers NewSession computes for the sandbox at sandboxPath
LowerLayers(disk, sandboxPath) ==
    LET entries == ReadDirNames(disk, PathJoin(sandboxPath, NameLayers))
        found == [i \in 1 .. Len(entries) |->
                     PathJoin(PathJoin(sandboxPath, NameLayers), entries[i])]
    IN  SortByAtoi(found) \o <<DefaultFsPath>>

\* OverlayFSManager.NewSession(sandboxKey), the clock having advanced by dt
NewSession(sandboxKey, dt) ==
    LET t == now + dt
        sandboxPath == PathJoin(SandboxesPath, sandboxKey)
        disk == dirs \cup {sandboxPath, PathJoin(sandboxPath, NameLayers)}
        timeKey == FormatInt(t)
    IN  /\ now' = t
        /\ dirs' = disk
        /\ sessions' = Append(sessions,
              [key |-> sandboxKey, t |-> t,
               mergedDir |-> PathJoin(sandboxPath, PrefixMerge \o timeKey),
               upperDir |-> PathJoin(PathJoin(sandboxPath, NameLayers), timeKey),
               workDir |-> PathJoin(sandboxPath, PrefixWork \o timeKey),
               lowerDirs |-> LowerLayers(disk, sandboxPath),
               state |-> "created",
               after |-> { i \in DOMAIN sessions : sessions[i].state = "closed" }])
        /\ UNCHANGED <<mounts, content, lastApi>>

-----------------------------------------------------------------------------
(* OverlayFS session                                                       *)

\* OverlayFS.Mount; mountOK is the outcome of unix.Mount
Mount(s, mountOK) ==
    LET o == sessions[s] IN
    /\ o.state = "created"
    /\ IF DirExists(dirs, o.mergedDir)
       THEN /\ mountOK
            /\ sessions' = [sessions EXCEPT ![s].state = "mountFailed"]
            /\ UNCHANGED <<dirs, mounts>>
       ELSE IF DirExists(dirs, o.workDir)
       THEN /\ mountOK
            /\ dirs' = dirs \cup {o.mergedDir}
            /\ sessions' = [sessions EXCEPT ![s].state = "mountFailed"]
            /\ UNCHANGED mounts
       ELSE IF DirExists(dirs, o.upperDir)
       THEN /\ mountOK
            /\ dirs' = dirs \cup {o.mergedDir, o.workDir}
            /\ sessions' = [sessions EXCEPT ![s].state = "mountFailed"]
            /\ UNCHANGED mounts
       ELSE IF ~mountOK
       THEN /\ dirs' = dirs \cup {o.mergedDir, o.workDir, o.upperDir}
            /\ sessions' = [sessions EXCEPT ![s].state = "mountFailed"]
            /\ UNCHANGED mounts
       ELSE /\ dirs' = dirs \cup {o.mergedDir, o.workDir, o.upperDir,
                                  PathJoin(o.workDir, NameWork)}
            /\ mounts' = Put(mounts, o.mergedDir,
                             [lowerDirs |-> o.lowerDirs, upperDir |-> o.upperDir,
                              workDir |-> o.workDir])
            /\ sessions' = [sessions EXCEPT ![s].state = "mounted"]
    /\ UNCHANGED <<now, content, lastApi>>

\* os.RemoveAll(path)
RemoveAll(disk, path) ==
    { d \in disk : d # path /\ ~HasPrefix(d, path \o <<"/">>) }

\* OverlayFS.Close that also removes the upper directory
CloseRemovingUpper(s) ==
    LET o == sessions[s] IN
    /\ o.state = "mounted"
    /\ mounts' = Delete(mounts, o.mergedDir)
    /\ dirs' = RemoveAll(RemoveAll(dirs \ {o.mergedDir}, o.workDir), o.upperDir)
    /\ sessions' = [sessions EXCEPT ![s].state = "closed"]
    /\ UNCHANGED <<now, content, lastApi>>

\* OverlayFS.Close, of a session whose Mount succeeded
Close(s) ==
    LET o == sessions[s] IN
    /\ o.state = "mounted"
    /\ IF o.mergedDir \notin DOMAIN mounts
       THEN /\ sessions' = [sessions EXCEPT ![s].state = "closeFailed"]
            /\ UNCHANGED <<dirs, mounts>>
       ELSE IF ~DirExists(dirs, o.mergedDir)
                \/ \E d \in dirs : HasPrefix(d, o.mergedDir \o <<"/">>)
       THEN /\ mounts' = Delete(mounts, o.mergedDir)
            /\ sessions' = [sessions EXCEPT ![s].state = "closeFailed"]
            /\ UNCHANGED dirs
       ELSE /\ mounts' = Delete(mounts, o.mergedDir)
            /\ dirs' = RemoveAll(dirs \ {o.mergedDir}, o.workDir)
            /\ sessions' = [sessions EXCEPT ![s].state = "closed"]
    /\ UNCHANGED <<now, content, lastApi>>

RECURSIVE TopMost(_, _)
\* what a lookup of the marker file finds in a stack of directories, the
\* first being the topmost: the content in the first that holds it, -1 for none
TopMost(stack, files) ==
    IF stack = <<>> THEN 0 - 1
    ELSE IF stack[1] \in DOMAIN files THEN files[stack[1]]
    ELSE TopMost(Tail(stack), files)

\* the marker file as seen through the overlay mounted at merged with
\* "lowerdir=<lowerDirs joined by :>,upperdir=...": upper first, then the
\* lower directories from the first (topmost) to the last (deepest)
Visible(merged) ==
    TopMost(<<mounts[merged].upperDir>> \o mounts[merged].lowerDirs, content)

\* a mounted session writes the marker file (through OpenFile): the overlay
\* puts it in the upper directory; what it writes is its own number
WriteMarker(s) ==
    /\ sessions[s].state = "mounted"
    /\ sessions[s].upperDir \notin DOMAIN content
    /\ content' = Put(content, sessions[s].upperDir, s)
    /\ UNCHANGED <<now, dirs, mounts, sessions, lastApi>>

-----------------------------------------------------------------------------
(* Path-scoped file API                                                    *)

insideMerged(o, path) ==
    LET mergedAbs == Abs(o.mergedDir)
        absPath == Abs(PathJoin(mergedAbs, path))
    IN  HasPrefix(absPath, mergedAbs)

PathX == <<"x">>
PathUpX == <<".", ".", "/", "x">>
PathUpUpUp == <<".", ".", "/", ".", ".", "/", ".", ".", "/", "e">>
PathRooted == <<"/", "e", "/", "p">>

\* the paths a caller passes to the API of session o
PathInputs(o) ==
    { PathX, PathUpX, PathUpUpUp, PathRooted,
      <<".", ".", "/">> \o BaseName(o.mergedDir) \o <<"/", "x">>,
      <<".", ".", "/">> \o BaseName(o.mergedDir) \o <<"0">> }

ApiCall(op, s, path, outcome) ==
    [called |-> TRUE, op |-> op, s |-> s, path |-> path, outcome |-> outcome]

\* OverlayFS.OpenFile(path, flag, perm)
OpenFile(s, path) ==
    /\ sessions[s].state = "mounted"
    /\ lastApi' = ApiCall("OpenFile", s, path,
                          IF ~insideMerged(sessions[s], path)
                          THEN "path outside root" ELSE "os.OpenFile")
    /\ UNCHANGED <<now, dirs, mounts, content, sessions>>

\* OverlayFS.DirExists(path): a target under the mount is looked up in the
\* overlay, any other on the disk
ofsDirExists(s, path) ==
    LET o == sessions[s]
        target == PathJoin(o.mergedDir, path)
    IN  /\ o.state = "mounted"
        /\ lastApi' = ApiCall("DirExists", s, path,
                              IF ~insideMerged(o, path) THEN "false"
                              ELSE IF target = o.mergedDir THEN "true"
                              ELSE IF HasPrefix(target, o.mergedDir \o <<"/">>)
                              THEN "in overlay"
                              ELSE IF DirExists(dirs, target) THEN "true"
                              ELSE "false")
        /\ UNCHANGED <<now, dirs, mounts, content, sessions>>

\* OverlayFS.Mkdir(path, mode): a target under the mount goes to the
\* overlay, any other is made on the disk when it can be
Mkdir(s, path) ==
    LET o == sessions[s]
        target == PathJoin(o.mergedDir, path)
    IN  /\ o.state = "mounted"
        /\ lastApi' = ApiCall("Mkdir", s, path,
                              IF ~insideMerged(o, path)
                              THEN "path outside root" ELSE "os.Mkdir")
        /\ dirs' = IF /\ insideMerged(o, path)
                      /\ ~HasPrefix(target, o.mergedDir \o <<"/">>)
                      /\ ~DirExists(dirs, target)
                      /\ DirExists(dirs, ParentDir(target))
                   THEN dirs \cup {target}
                   ELSE dirs
        /\ UNCHANGED <<now, mounts, content, sessions>>

\* OverlayFS.ReadDir(path)
ReadDir(s, path) ==
    /\ sessions[s].state = "mounted"
    /\ lastApi' = ApiCall("ReadDir", s, path,
                          IF ~insideMerged(sessions[s], path)
                          THEN "path outside root" ELSE "os.ReadDir")
    /\ UNCHANGED <<now, dirs, mounts, content, sessions>>

-----------------------------------------------------------------------------
(* Specifications                                                          *)

NoApi == [called |-> FALSE, op |-> "", s |-> 0, path |-> <<>>, outcome |-> ""]

\* the disk after OverlayFSManager.Init(BaseDir); the default filesystem
\* holds the marker file with content 0
InitFS ==
    /\ now = StartTime
    /\ dirs = {BaseDir, DefaultFsPath, SandboxesPath}
    /\ mounts = NoEntries
    /\ content = [d \in {DefaultFsPath} |-> 0]
    /\ sessions = <<>>
    /\ lastApi = NoApi

Init == (\E files \in CorpusFiles : InitServer(files)) /\ InitFS

Next ==
    \/ \E c \in Conns, cred \in SessionCredentials, host \in RemoteHosts,
          unixNow \in UnixNow :
             Connect(c, cred.user, cred.password, host, unixNow) /\ UNCHANGED fsVars
    \/ \E c \in Conns : sessionRegister(c) /\ UNCHANGED fsVars
    \/ \E c \in Conns, hist \in Histories, spent \in TimeSpentInputs :
          sessionProcess(c, hist, spent) /\ UNCHANGED fsVars
    \/ \E c \in Conns : sessionPersist(c) /\ UNCHANGED fsVars
    \/ \E c \in Conns, writeOK \in BOOLEAN :
          sessionCapture(c, writeOK) /\ UNCHANGED fsVars
    \/ \E c \in Conns : sessionUnregister(c) /\ UNCHANGED fsVars

\* the server with its sessions
Spec == Init /\ [][Next]_vars

NextSteps ==
    \/ \E c \in Conns, cred \in SessionCredentials, host \in RemoteHosts,
          unixNow \in UnixNow :
             Connect(c, cred.user, cred.password, host, unixNow) /\ UNCHANGED fsVars
    \/ \E c \in Conns : sessionRegister(c) /\ UNCHANGED fsVars
    \/ \E c \in Conns, hist \in Histories, spent \in TimeSpentInputs :
          sessionProcess(c, hist, spent) /\ UNCHANGED fsVars
    \/ \E c \in Conns : sessionPersist(c) /\ UNCHANGED fsVars
    \/ \E c \in Conns : sessionCaptureBegin(c) /\ UNCHANGED fsVars
    \/ \E c \in Conns, writeOK \in BOOLEAN :
          sessionCaptureWrite(c, writeOK) /\ UNCHANGED fsVars
    \/ \E c \in Conns : sessionUnregister(c) /\ UNCHANGED fsVars
    \/ \E host \in RemoteHosts, err \in ErrInputs :
          connectionFailedCallback(host, err) /\ UNCHANGED fsVars

\* the server with its sessions running concurrently, saveCapture taken
\* statement by statement, and the connection-failed callback
SpecSteps == Init /\ [][NextSteps]_vars

NextRace ==
    \/ \E c \in Conns, cred \in SessionCredentials, host \in RemoteHosts,
          unixNow \in UnixNow :
             authBegin(c, cred.user, cred.password, host, unixNow)
                 /\ UNCHANGED fsVars
    \/ \E c \in Conns : authAddUser(c) /\ UNCHANGED fsVars
    \/ \E c \in Conns : authAddPassword(c) /\ UNCHANGED fsVars
    \/ \E c \in Conns : authAddHost(c) /\ UNCHANGED fsVars
    \/ \E c \in Conns : authReadAttempts(c) /\ UNCHANGED fsVars
    \/ \E c \in Conns : authWriteAttempts(c) /\ UNCHANGED fsVars
    \/ \E c \in Conns : authReadOutcome(c) /\ UNCHANGED fsVars
    \/ \E c \in Conns : authWriteOutcome(c) /\ UNCHANGED fsVars
    \/ statsJSON /\ UNCHANGED fsVars

\* authHandler calls of concurrent connection tasks, taken statement by
\* statement, and the stats snapshot
SpecRace == Init /\ [][NextRace]_vars

NextAdd ==
    \E op \in AddOps, raw \in AddInputs : AddCall(op, raw) /\ UNCHANGED fsVars

\* the add functions of the corpus store applied to a loaded corpus
SpecAdd == Init /\ [][NextAdd]_vars

NextRestart ==
    \/ \E usr \in RestartUserInputs, host \in RemoteHosts, unixNow \in UnixNow :
             Attempt(usr, PwdPlain, host, unixNow) /\ UNCHANGED fsVars
    \/ SaveCorpus /\ UNCHANGED fsVars
    \/ Restart /\ UNCHANGED fsVars

\* login attempts, the corpus saved to its files, and the server restarted
SpecRestart == Init /\ [][NextRestart]_vars

NextAuth ==
    \E usr \in UserInputs, pwd \in PasswordInputs, host \in RemoteHosts,
       unixNow \in UnixNow : Attempt(usr, pwd, host, unixNow) /\ UNCHANGED fsVars

\* the auth policy alone: login attempts handled one at a time
SpecAuth == Init /\ [][NextAuth]_vars

\* the server started on empty corpus files, and the disk after
\* OverlayFSManager.Init
InitOverlay == InitServer(NoCorpusFiles) /\ InitFS

NextFS ==
    \/ \E key \in SandboxKeys, dt \in ClockSteps :
          /\ Len(sessions) < MaxSessions
          /\ NewSession(key, dt)
          /\ UNCHANGED serverVars
    \/ \E s \in DOMAIN sessions, mountOK \in BOOLEAN :
          Mount(s, mountOK) /\ UNCHANGED serverVars
    \/ \E s \in DOMAIN sessions : WriteMarker(s) /\ UNCHANGED serverVars
    \/ \E s \in DOMAIN sessions : Close(s) /\ UNCHANGED serverVars

\* the overlay sessions of the sandboxes, from creation to Close
SpecFS == InitOverlay /\ [][NextFS]_vars

NextPath ==
    \/ \E key \in SandboxKeys, dt \in ClockSteps :
          /\ Len(sessions) < MaxApiSessions
          /\ NewSession(key, dt)
          /\ UNCHANGED serverVars
    \/ \E s \in DOMAIN sessions, mountOK \in BOOLEAN :
          Mount(s, mountOK) /\ UNCHANGED serverVars
    \/ \E s \in DOMAIN sessions : \E path \in PathInputs(sessions[s]) :
          OpenFile(s, path) /\ UNCHANGED serverVars
    \/ \E s \in DOMAIN sessions : \E path \in PathInputs(sessions[s]) :
          ofsDirExists(s, path) /\ UNCHANGED serverVars
    \/ \E s \in DOMAIN sessions : \E path \in PathInputs(sessions[s]) :
          Mkdir(s, path) /\ UNCHANGED serverVars
    \/ \E s \in DOMAIN sessions : \E path \in PathInputs(sessions[s]) :
          ReadDir(s, path) /\ UNCHANGED serverVars

\* mounted sessions and the calls of their file API
SpecPath == InitOverlay /\ [][NextPath]_vars

NextClose ==
    \/ \E key \in SandboxKeys, dt \in ClockSteps :
          /\ Len(sessions) < MaxCloseSessions
          /\ NewSession(key, dt)
          /\ UNCHANGED serverVars
    \/ \E s \in DOMAIN sessions, mountOK \in BOOLEAN :
          Mount(s, mountOK) /\ UNCHANGED serverVars
    \/ \E s \in DOMAIN sessions : WriteMarker(s) /\ UNCHANGED serverVars
    \/ \E s \in DOMAIN sessions : Close(s) /\ UNCHANGED serverVars

\* a session closing and the sessions created after it
SpecClose == InitOverlay /\ [][NextClose]_vars

-----------------------------------------------------------------------------
(* Properties of the auth policy and the corpus (SpecAuth)                 *)

ObservedHosts ==
    DOMAIN Stats.Hosts \cup DOMAIN Stats.Attempts \cup DOMAIN Stats.Failed
        \cup DOMAIN Stats.OK

\* C1: after any sequence of login attempts, every host ever observed has
\* Attempts[h] = Failed[h] + OK[h].
C1_AttemptsAreFailedPlusOK ==
    \A h \in ObservedHosts :
        Get(Stats.Attempts, h) = Get(Stats.Failed, h) + Get(Stats.OK, h)

\* a host that was rejected once and accepted afterwards
C1_Witness ==
    \E h \in ObservedHosts :
        /\ Get(Stats.Failed, h) >= 1
        /\ Get(Stats.OK, h) >= 1
        /\ Get(Stats.Attempts, h) >= 2

\* 'known' as the claim C2 has it: membership in the multiset, an empty
\* password being the item (empty)
KnownPassword(S, pwd) ==
    (IF pwd = <<>> THEN EmptyToken ELSE pwd) \in DOMAIN S.Passwords

\* the decision ladder as claim C2 states it
LadderOutcome(S, usr, pwd, host, unixNow) ==
    IF host \in DOMAIN S.Hosts
    THEN [accept |-> TRUE, reason |-> "host is back for more"]
    ELSE IF usr \in DOMAIN S.Users /\ KnownPassword(S, pwd)
    THEN [accept |-> FALSE, reason |-> "host does not have new credentials"]
    ELSE IF usr \in DOMAIN S.Users
    THEN [accept |-> TRUE, reason |-> "host got the user name right"]
    ELSE IF KnownPassword(S, pwd)
    THEN [accept |-> TRUE, reason |-> "host got the password right"]
    ELSE IF unixNow % 3 = 0
    THEN [accept |-> TRUE, reason |-> "host dodged all obstacles"]
    ELSE [accept |-> FALSE, reason |-> "host lost a game of dice"]

\* C2: every attempt that matches no sync-peer triple gets the result and
\* the reason of the decision ladder, where an empty password counts as
\* known when (empty) is in Passwords.
C2_LadderDecides ==
    (lastAuth.called /\ ~IsPeerTriple(lastAuth.usr, lastAuth.pwd, lastAuth.host))
        => LET want == LadderOutcome(lastAuth.pre, lastAuth.usr, lastAuth.pwd,
                                     lastAuth.host, lastAuth.now)
           IN  lastAuth.accept = want.accept /\ lastAuth.reason = want.reason

\* C8: hosts are never removed from the corpus, and every attempt from a
\* host already in Hosts that is not a sync-peer triple is accepted with
\* the reason "host is back for more", whatever its user and password.
C8_KnownHostAlwaysAccepted ==
    [][ /\ DOMAIN Stats.Hosts \subseteq DOMAIN Stats'.Hosts
        /\ ( /\ nAttempts' = nAttempts + 1
             /\ lastAuth'.host \in DOMAIN Stats.Hosts
             /\ ~IsPeerTriple(lastAuth'.usr, lastAuth'.pwd, lastAuth'.host) )
           => ( /\ lastAuth'.accept
                /\ lastAuth'.reason = "host is back for more" ) ]_vars

\* a returning host offering a known user and a known password was let in
C8_Witness ==
    /\ lastAuth.called
    /\ ~lastAuth.peer
    /\ hasHost(lastAuth.pre, lastAuth.host)
    /\ hasUser(lastAuth.pre, lastAuth.usr)
    /\ hasPassword(lastAuth.pre, lastAuth.pwd)
    /\ lastAuth.accept

\* C9: after a non-peer attempt, the auth policy's membership tests for its
\* user, its password and its host all answer 'known'.
C9_AttemptMakesTripleKnown ==
    (lastAuth.called /\ ~lastAuth.peer)
        => /\ hasUser(Stats, lastAuth.usr)
           /\ hasPassword(Stats, lastAuth.pwd)
           /\ hasHost(Stats, lastAuth.host)

\* C20: with attempts handled one at a time, no host has more than one
\* failed login, and an attempt from a host that has been rejected, made
\* with any credentials that are not a sync-peer triple, is accepted.
C20_RejectedAtMostOnce ==
    /\ \A h \in ObservedHosts : Get(Stats.Failed, h) <= 1
    /\ (lastAuth.called /\ ~lastAuth.peer
            /\ Get(lastAuth.pre.Failed, lastAuth.host) >= 1)
          => lastAuth.accept

\* C20: a host that was rejected came back with a user and a password the
\* corpus knows, and was let in
C20_Witness ==
    /\ lastAuth.called
    /\ ~lastAuth.peer
    /\ Get(lastAuth.pre.Failed, lastAuth.host) = 1
    /\ Get(lastAuth.pre.OK, lastAuth.host) = 0
    /\ hasUser(lastAuth.pre, lastAuth.usr)
    /\ hasPassword(lastAuth.pre, lastAuth.pwd)
    /\ lastAuth.accept
    /\ Get(Stats.Failed, lastAuth.host) = 1

-----------------------------------------------------------------------------
(* Properties of the sessions (Spec)                                       *)

\* C3: a session authenticated with a sync-peer triple adds nothing to
\* TimeWasted and never reaches saveCapture (the one place a session
\* mutates the corpus and writes a capture).
C3_PeerSessionLeavesNoTrace ==
    /\ \A c \in Conns : conns[c].peer => conns[c].wasted = 0
    /\ lastCapture.called => ~lastCapture.peer

-----------------------------------------------------------------------------
(* Properties of concurrent sessions (SpecSteps)                           *)

\* the capture files on disk that hold the history with digest sha1
CapturesOf(sha1) ==
    { h \in RemoteHosts : FileExists(captures, CapturePath(h, sha1)) }

\* C11: for each SHA-1 of a command history at most one capture file gets
\* written, whatever hosts the sessions come from, and no os.WriteFile of
\* saveCapture targets a capture file that already exists.
C11_OneCapturePerFingerprint ==
    /\ \A hist \in Histories :
           Cardinality(CapturesOf(StringToSha1(Join(hist, <<"\n">>)))) <= 1
    /\ (lastCall.called /\ lastCall.op = "os.WriteFile")
           => lastCall.out.kind # "overwritten"

\* C12: in every state, every fingerprint in the persisted fingerprints
\* file has a capture file ocap-<host>-<sha1>.sh on disk.
C12_PersistedFingerprintHasCapture ==
    \A sha1 \in persisted.fingerprints : CapturesOf(sha1) # {}

\* C18: the connection-failed callback ignores an EOF error; for any other
\* error it logs user@host when a shell is registered for the host, and
\* the host alone when none is.
C18_FailureAttributedToShellUser ==
    (lastCall.called /\ lastCall.op = "connectionFailedCallback")
        => lastCall.out.kind =
              (IF lastCall.arg.err = ErrEOF THEN "ignored"
               ELSE IF lastCall.arg.shell THEN "user@host" ELSE "host")

-----------------------------------------------------------------------------
(* Properties of concurrent authHandler calls (SpecRace)                   *)

\* C13: under every interleaving of authHandler executions no update is
\* lost (once all have finished, Attempts[h] is the number of login records
\* made for h and equals Failed[h] + OK[h]), and no statsJSON snapshot is
\* taken of a partly applied login record.
C13_NoLostUpdateNoPartialSnapshot ==
    /\ (\A c \in Conns : auths[c].pc = "idle")
           => \A h \in RemoteHosts :
                 /\ Get(Stats.Attempts, h) = Get(recorded, h)
                 /\ Get(Stats.Attempts, h) = Get(Stats.Failed, h) + Get(Stats.OK, h)
    /\ (lastCall.called /\ lastCall.op = "statsJSON") => ~lastCall.arg.partial

-----------------------------------------------------------------------------
(* Properties of the add functions (SpecAdd)                               *)

\* the multiset that the add function op works on
MultisetOf(S, op) ==
    CASE op = "addHost" -> S.Hosts
      [] op = "addUser" -> S.Users
      [] op = "addPassword" -> S.Passwords
      [] op = "addFingerprint" -> S.Fingerprints

\* C17: adding an empty or whitespace-only string with addHost, addUser,
\* addPassword or addFingerprint leaves every multiset and login counter
\* unchanged and the key absent; adding any other string puts its trimmed
\* form in with count 1, or increments its count by exactly 1, and changes
\* no other item.
C17_BlankAddIsNoOp ==
    (lastCall.called /\ lastCall.op \in AddOps)
        => LET key == TrimSpace(lastCall.arg)
               before == MultisetOf(lastCall.pre, lastCall.op)
               after == MultisetOf(Stats, lastCall.op)
           IN  IF key = <<>>
               THEN /\ Stats = lastCall.pre
                    /\ lastCall.arg \notin DOMAIN after
                    /\ key \notin DOMAIN after
               ELSE /\ DOMAIN after = DOMAIN before \cup {key}
                    /\ after[key] = (IF key \in DOMAIN before
                                     THEN before[key] + 1 ELSE 1)
                    /\ \A k \in DOMAIN before \ {key} : after[k] = before[k]
                    /\ \A o \in AddOps \ {lastCall.op} :
                          MultisetOf(Stats, o) = MultisetOf(lastCall.pre, o)

\* C17: a whitespace-only string was added to a corpus that holds items,
\* after a padded string had been counted under its trimmed form
C17_Witness ==
    /\ lastCall.called
    /\ lastCall.op = "addUser"
    /\ lastCall.arg = <<"\t", " ">>
    /\ UserRoot \in DOMAIN lastCall.pre.Users
    /\ lastCall.pre.Users[UserRoot] = 2
    /\ UserPadded \notin DOMAIN Stats.Users

-----------------------------------------------------------------------------
(* Properties of a restart (SpecRestart)                                   *)

\* every key of the multiset has count zero
AllZero(m) == \A k \in DOMAIN m : m[k] = 0

\* C19: the corpus NewOSSHServer loads from the saved files has, in each
\* multiset, exactly the key set that was saved, and every loaded key has
\* count zero.
C19_LoadInvertsSave ==
    (lastCall.called /\ lastCall.op = "NewOSSHServer")
        => LET L == lastCall.arg.loaded
               files == lastCall.arg.files
           IN  /\ DOMAIN L.Hosts = files.hosts
               /\ DOMAIN L.Users = files.users
               /\ DOMAIN L.Passwords = files.passwords
               /\ DOMAIN L.Fingerprints = files.fingerprints
               /\ AllZero(L.Hosts) /\ AllZero(L.Users)
               /\ AllZero(L.Passwords) /\ AllZero(L.Fingerprints)

-----------------------------------------------------------------------------
(* Properties of the shell registry (SpecSteps)                            *)

\* the positions of sessionHandler between ossh.shells[host] = fs and
\* delete(ossh.shells, host)
ShellRegistered == {"running", "processed", "persisted", "writing", "captured"}

\* the connections whose session from host h is running
RunningFrom(h) ==
    { c \in Conns : conns[c].pc \in ShellRegistered /\ conns[c].host = h }

\* C21: while a session from host h is running, shells[h] is present and
\* is the shell of a running session from h, also when a second session
\* from h starts or ends meanwhile; when no session from h is running,
\* shells has no entry for h.
C21_ShellEntryWhileRunning ==
    \A h \in RemoteHosts :
        IF RunningFrom(h) # {}
        THEN h \in DOMAIN shells /\ shells[h] \in RunningFrom(h)
        ELSE h \notin DOMAIN shells

-----------------------------------------------------------------------------
(* Properties of the session file API (SpecPath)                           *)

\* the location a path argument names: it joined with merged, normalised
Resolved(o, path) == Clean(PathJoin(o.mergedDir, path))

\* that location is merged itself or a descendant of merged
UnderMerged(o, path) ==
    \/ Resolved(o, path) = Clean(o.mergedDir)
    \/ HasPrefix(Resolved(o, path), Clean(o.mergedDir) \o <<"/">>)

\* C4: every call of OpenFile, Mkdir or ReadDir whose path resolves to a
\* location that is neither merged nor a descendant of merged returns
\* "path outside root", and DirExists returns false for it.
C4_OutsideMergedRefused ==
    (lastApi.called /\ ~UnderMerged(sessions[lastApi.s], lastApi.path))
        => lastApi.outcome = (IF lastApi.op = "DirExists" THEN "false"
                              ELSE "path outside root")

-----------------------------------------------------------------------------
(* Properties of the layers (SpecFS, SpecClose)                            *)

Elems(seq) == { seq[i] : i \in DOMAIN seq }

\* the entries of the layers directories on a disk
LayerEntries(disk) ==
    { d \in disk : \E key \in SandboxKeys :
         ParentDir(d) = PathJoin(PathJoin(SandboxesPath, key), NameLayers) }

\* C5: a session of sandbox K created after two sessions of K with creation
\* times t1 < t2 were mounted and closed, these two being the only layers
\* of K, has lowerDirs = [layers/t1, layers/t2, defaultfs].
C5_LayersOldestFirst ==
    \A c \in DOMAIN sessions : \A a, b \in sessions[c].after :
        (/\ sessions[a].key = sessions[c].key
         /\ sessions[b].key = sessions[c].key
         /\ sessions[a].t < sessions[b].t
         /\ Len(sessions[c].lowerDirs) = 3)
            => sessions[c].lowerDirs =
                 <<sessions[a].upperDir, sessions[b].upperDir, DefaultFsPath>>

\* C6: when session A of sandbox K wrote the marker file and closed, then
\* session B of K wrote it and closed, a session C of K created after both
\* and mounted reads B's content through its overlay (until it writes the
\* file itself).
C6_NewerLayerShadowsOlder ==
    \A c \in DOMAIN sessions : \A a, b \in sessions[c].after :
        (/\ sessions[a].key = sessions[c].key
         /\ sessions[b].key = sessions[c].key
         /\ a \in sessions[b].after
         /\ sessions[a].upperDir \in DOMAIN content
         /\ sessions[b].upperDir \in DOMAIN content
         /\ sessions[c].state = "mounted"
         /\ sessions[c].upperDir \notin DOMAIN content)
            => Visible(sessions[c].mergedDir) = content[sessions[b].upperDir]

\* the step is a Close of mounted session s that returns nil
IsClose(s) ==
    /\ s \in DOMAIN sessions
    /\ sessions[s].state = "mounted"
    /\ sessions'[s].state = "closed"

\* what C7 says of the step of a Close
CloseFrame ==
    \A s \in DOMAIN sessions : IsClose(s) =>
        /\ ~DirExists(dirs', sessions[s].mergedDir)
        /\ \A d \in dirs' : /\ d # sessions[s].workDir
                             /\ ~HasPrefix(d, sessions[s].workDir \o <<"/">>)
        /\ DirExists(dirs', sessions[s].upperDir)
        /\ LayerEntries(dirs') = LayerEntries(dirs)
        /\ content' = content

\* what C7 says of the sessions created after a Close
ClosedLayerListed ==
    \A a, c \in DOMAIN sessions :
        /\ (a \in sessions[c].after /\ sessions[a].key = sessions[c].key)
              => sessions[a].upperDir \in Elems(sessions[c].lowerDirs)
        /\ (sessions[a].state = "closed" /\ sessions[a].key # sessions[c].key)
              => sessions[a].upperDir \notin Elems(sessions[c].lowerDirs)

\* C7: a Close of a mounted session removes its merged directory and its
\* whole work tree and leaves its upper directory and every other entry of
\* layers/ as they were; every session of the same sandbox created after the
\* Close has that upper directory among its lowerDirs, and no session of
\* another sandbox has.
C7_CloseKeepsUpperAsLayer == [][CloseFrame]_vars /\ []ClosedLayerListed

\* C7: a session was mounted and closed, its merged and work directories are
\* gone, its upper directory is on disk, and a later session of the same
\* sandbox lists it as a lower directory.
C7_Witness ==
    \E a, c \in DOMAIN sessions :
        /\ sessions[a].state = "closed"
        /\ a \in sessions[c].after
        /\ sessions[a].key = sessions[c].key
        /\ ~DirExists(dirs, sessions[a].mergedDir)
        /\ ~DirExists(dirs, sessions[a].workDir)
        /\ DirExists(dirs, sessions[a].upperDir)
        /\ sessions[a].upperDir \in Elems(sessions[c].lowerDirs)

\* C14: any two sessions NewSession returned for the same sandbox key, also
\* two made within the same clock second, have distinct merge-<t>, work-<t>
\* and layers/<t> paths.
C14_FreshPathsPerSession ==
    \A a, b \in DOMAIN sessions :
        (a # b /\ sessions[a].key = sessions[b].key)
            => /\ sessions[a].mergedDir # sessions[b].mergedDir
               /\ sessions[a].workDir # sessions[b].workDir
               /\ sessions[a].upperDir # sessions[b].upperDir

\* C15: the upper directory of a session that is mounted is never among
\* the lowerDirs of another session of the same sandbox.
C15_MountedUpperIsPrivate ==
    \A a, c \in DOMAIN sessions :
        (a # c /\ sessions[a].key = sessions[c].key
               /\ sessions[a].state = "mounted")
            => sessions[a].upperDir \notin Elems(sessions[c].lowerDirs)

\* C16: in every state, the merge-<t> or work-<t> directory of a session
\* is on disk only if a session with these directories is mounted.
C16_MergeAndWorkOnlyWhileMounted ==
    \A s \in DOMAIN sessions :
        (DirExists(dirs, sessions[s].mergedDir) \/ DirExists(dirs, sessions[s].workDir))
            => \E o \in DOMAIN sessions :
                  /\ sessions[o].mergedDir = sessions[s].mergedDir
                  /\ sessions[o].state = "mounted"

====
